---- MODULE Spec2Model ----
(***************************************************************************)
(* State-machine model of the spreadsheet-to-PDF conversion system:        *)
(*   - the Gateway (pdf-printer/app/main.py): queue_job, convert_xlsx,     *)
(*     convert_in_shared_dir, check_pdf, delete_file over the shared       *)
(*     staging directory TMP_DIR;                                          *)
(*   - the Task Queue 'pdf_jobs' (RabbitMQ, reached through pika);         *)
(*   - the Worker (pdf-worker/worker.py): main and process_message.        *)
(*                                                                         *)
(* Scheduling.  The Gateway's `async def` handlers run on one event loop;  *)
(* their file operations and subprocess.run block it, and reading an       *)
(* upload held in memory does not suspend, so at most one of them is in    *)
(* progress (variable loop).  check_pdf is a plain `def`, and os.remove    *)
(* scheduled as a background task is a plain function:                     *)
(* both run on the thread pool and interleave with a handler in progress;  *)
(* a response is sent by the event loop, between two handlers.             *)
(* The Worker is a separate process.                                       *)
(*                                                                         *)
(* File names are sequences of characters, relative to TMP_DIR (which      *)
(* contains no ".xlsx", so str.replace on the joined path acts on the name *)
(* alone).                                                                 *)
(***************************************************************************)
EXTENDS Integers, Sequences, FiniteSets, TLC

----------------------------------------------------------------------------
(* Bounds of the model *)

\* number of distinct queue_job requests (request tags 1..MaxJobs)
MaxJobs == 2

\* number of queue_job requests where the Gateway's clients call every operation
MaxUploads == 1

\* number of file responses that may be awaiting transmission or cleanup
MaxResp == 1

\* a clock that only measures "longer than RetryInterval" stops this far past it
ClockSlack == 1

----------------------------------------------------------------------------
(* Strings *)

DotXlsx == <<".", "x", "l", "s", "x">>

DotPdf == <<".", "p", "d", "f">>

\* uploads used in the model: report-like "a.xlsx", and a name without ".xlsx"
Names == { <<"a", ".", "x", "l", "s", "x">>, <<"a", ".", "x", "l", "s">> }

NoName == <<>>

StartsWith(s, p) == Len(s) >= Len(p) /\ SubSeq(s, 1, Len(p)) = p

\* Python's s.replace(old, new): every non-overlapping occurrence, left to right
RECURSIVE Replace(_, _, _)
Replace(s, old, new) ==
  IF s = <<>> THEN <<>>
  ELSE IF StartsWith(s, old)
       THEN new \o Replace(SubSeq(s, Len(old) + 1, Len(s)), old, new)
       ELSE <<Head(s)>> \o Replace(Tail(s), old, new)

\* output_path = input_path.replace(".xlsx", ".pdf")
OutputPath(name) == Replace(name, DotXlsx, DotPdf)

\* position of the last "." of s, 0 when there is none
LastDot(s) ==
  LET dots == { i \in 1..Len(s) : s[i] = "." }
  IN  IF dots = {} THEN 0 ELSE CHOOSE i \in dots : \A j \in dots : j <= i

\* the file the engine writes for `--convert-to pdf <input> --outdir TMP_DIR`:
\* the input's base name with its last extension replaced by ".pdf"
EngineOut(name) ==
  (IF LastDot(name) > 1 THEN SubSeq(name, 1, LastDot(name) - 1) ELSE name) \o DotPdf

Paths == Names \cup { OutputPath(n) : n \in Names } \cup { EngineOut(n) : n \in Names }

\* parts of the file names a client may choose for an upload
Pieces == { <<>>, <<"a">>, DotXlsx, <<".", "x", "l", "s">> }

\* upload names: "a" followed by two parts, among them "a.xlsx", "a.xls",
\* "a.xlsx.xlsx", "a.xls.xlsx", "a.xlsxa", "aa"
NameInputs == { <<"a">> \o x \o y : x \in Pieces, y \in Pieces }

\* every path the Staging Store may hold
AllPaths ==
  NameInputs \cup { OutputPath(n) : n \in NameInputs } \cup { EngineOut(n) : n \in NameInputs }

EndsWith(s, suf) ==
  Len(s) >= Len(suf) /\ SubSeq(s, Len(s) - Len(suf) + 1, Len(s)) = suf

\* `old in s` of Python
Contains(s, old) == \E i \in 1..Len(s) : StartsWith(SubSeq(s, i, Len(s)), old)

----------------------------------------------------------------------------
(* Options and export filters *)

\* lo_options absent (Form(default=None))
NoOpt == <<"None">>

Options == { NoOpt, <<"o">> }

\* Python truthiness of an optional string
Truthy(opt) == opt # NoOpt /\ opt # <<>>

\* the --convert-to argument: "pdf", or f'pdf:calc_pdf_Export:{lo_options}'
ConvertFilter(opt) ==
  IF Truthy(opt) THEN <<"pdf:calc_pdf_Export:">> \o opt ELSE <<"pdf">>

\* json.dumps of a string: the string in double quotes
JsonDumps(opt) == <<"\"">> \o opt \o <<"\"">>

----------------------------------------------------------------------------
(* Staged files *)

Absent == [kind |-> "absent", src |-> 0, filt |-> <<>>]

\* an uploaded spreadsheet; src tells the uploads apart (0: an empty body)
Xlsx(src) == [kind |-> "xlsx", src |-> src, filt |-> <<>>]

\* the engine's rendering of the input it read, under the given filter
Pdf(input, filt) == [kind |-> "pdf", src |-> input.src, filt |-> filt]

\* the body of a direct upload to /convert (not a queue_job request)
ClientSrc == MaxJobs + 1

Ids == 1..MaxJobs


\* fixed wait of the reconnect loop, in seconds: time.sleep(5)
RetryInterval == 5

----------------------------------------------------------------------------
(* Credentials *)

\* the Gateway's PDF_PRINTER_USER and PDF_PRINTER_PASS (their defaults)
PrinterUser == "admin"

PrinterPass == "password"

\* the Worker's default for PDF_PRINTER_USER; its default password is the
\* Gateway's
WorkerDefaultUser == "user"

\* user names and passwords a request may carry
Users == {PrinterUser, WorkerDefaultUser}

Passwords == {PrinterPass, "wrong"}

\* verify_credentials accepts the request (it raises 401 otherwise): both the
\* user name and the password are the configured ones
VerifyCredentials(u, p) == u = PrinterUser /\ p = PrinterPass

\* the operations that depend on verify_credentials
ProtectedOps == {"queue_job", "convert", "staged", "check_pdf", "delete_file"}

----------------------------------------------------------------------------
(* State *)

VARIABLES
  fs,         \* the Staging Store TMP_DIR: path -> staged file or Absent
  loop,       \* the Gateway handler in progress on the event loop, or Idle
  out,        \* file responses returned by a handler, until sent and cleaned up
  config,     \* RABBITMQ_HOST, RABBITMQ_USER and RABBITMQ_PASS are all non-empty
  broker,     \* the Task Queue's broker is reachable: "up" or "down"
  queue,      \* messages held by the durable queue 'pdf_jobs'
  unacked,    \* messages delivered and awaiting acknowledgement (none with auto_ack)
  inbox,      \* messages delivered to the Worker's connection, not yet dispatched
  conn,       \* the Worker's connection is alive
  wpc,        \* the Worker's position in main / process_message
  wmsg,       \* the message process_message is working on
  used,       \* request tags of the queue_job calls made so far
  delivered,  \* per request tag: how often its message was delivered (history)
  handledW,   \* per request tag: how often process_message was invoked (history)
  handledS,   \* per request tag: how often convert_xlsx ran for it (history)
  lastUp,     \* per name: the request tag of the last queue_job write (history)
  slept,      \* time.sleep has returned since the last connection attempt (history)
  sleepLeft,  \* seconds left of the Worker's time.sleep
  upFor,      \* seconds since the broker became reachable (capped)
  downFor,    \* seconds the last outage lasted (capped)
  lateDetect, \* the Worker had not noticed the outage when the broker came back
  workerUser, \* PDF_PRINTER_USER in the Worker's environment
  denied      \* the operation of the last request answered with 401 (history)

vars == <<fs, loop, out, config, broker, queue, unacked, inbox, conn, wpc, wmsg,
          used, delivered, handledW, handledS, lastUp, slept,
          sleepLeft, upFor, downFor, lateDetect, workerUser, denied>>

gatewayVars == <<fs, loop, out>>

queueVars == <<queue, unacked, inbox>>

workerVars == <<conn, wpc, wmsg, sleepLeft>>

histVars == <<used, delivered, handledW, handledS, lastUp, slept>>

jobVars == <<used, delivered, handledW, handledS, lastUp>>

clockVars == <<upFor, downFor, lateDetect>>

authVars == <<workerUser, denied>>

Idle ==
  [op |-> "idle", pc |-> "", name |-> NoName, opt |-> NoOpt, del |-> FALSE,
   id |-> 0, via |-> "", res |-> "", wrote |-> NoName, read |-> -1]

Exists(f, path) == f[path] # Absent

\* open(path, "wb") and copy the body
WriteFile(f, path, content) == [f EXCEPT ![path] = content]

\* os.remove(path) of an existing file
RemoveFile(f, path) == [f EXCEPT ![path] = Absent]

\* a QueueMessage that asks for the input to be deleted
MessageBodyDeleting(name, opt) ==
  [xlsx |-> name, lo_options |-> opt, delete_original |-> <<"1">>]

\* the body of a QueueMessage: json.dumps({'xlsx': ..., 'lo_options': ...})
MessageBody(name, opt) == [xlsx |-> name, lo_options |-> opt]

\* dict.get on the decoded body: None for a missing key
Get(body, key) == IF key \in DOMAIN body THEN body[key] ELSE NoOpt

NoMsg == [id |-> 0, body |-> MessageBody(NoName, NoOpt)]

\* a body that is not JSON
Malformed == [raw |-> "{"]

\* a JSON object without the 'xlsx' key
NoFilename == [lo_options |-> NoOpt]

\* bodies of messages that reach the queue from elsewhere than queue_job
ForeignBodies == {Malformed, NoFilename}

\* json.loads(body) returns (it raises on a body that is not JSON)
Decodes(body) == "raw" \notin DOMAIN body

\* a FileResponse of check_pdf or convert_xlsx: bg tells whether os.remove is
\* its background task, stage whether it is "pending" or "sent"
Response(op, path, bg, stage) == [op |-> op, path |-> path, bg |-> bg, stage |-> stage]

Bump(f, id) == [f EXCEPT ![id] = IF @ < 2 THEN @ + 1 ELSE @]

Init ==
  /\ fs = [p \in AllPaths |-> Absent]
  /\ loop = Idle
  /\ out = {}
  /\ config \in BOOLEAN
  /\ broker \in {"up", "down"}
  /\ queue = <<>>
  /\ unacked = <<>>
  /\ inbox = <<>>
  /\ conn = FALSE
  /\ wpc = "connect"
  /\ wmsg = NoMsg
  /\ used = {}
  /\ delivered = [i \in Ids |-> 0]
  /\ handledW = [i \in Ids |-> 0]
  /\ handledS = [i \in Ids |-> 0]
  /\ lastUp = [n \in Names |-> 0]
  /\ slept = FALSE
  /\ sleepLeft = 0
  /\ upFor = 0
  /\ downFor = 0
  /\ lateDetect = FALSE
  /\ workerUser \in Users
  /\ denied = ""

----------------------------------------------------------------------------
(* Gateway: queue_job *)

\* `if RABBITMQ_HOST and RABBITMQ_USER and RABBITMQ_PASS: ... else:` takes the
\* else branch (direct conversion) exactly when the configuration is missing
FallsBackAlways(configured) == TRUE

FallsBack(configured) == ~configured

\* the upload is saved: open(tmp_file, "wb") truncates whatever was there
SaveUploadExclusive(f, name, id) ==
  IF Exists(f, name) THEN f ELSE WriteFile(f, name, Xlsx(id))

SaveUpload(f, name, id) == WriteFile(f, name, Xlsx(id))

\* a queue_job that removes the saved upload when publishing fails
FailedJobDropped(f, name) == RemoveFile(f, name)

\* the Staging Store when queue_job fails after saving: `except` cleans up nothing
FailedJobFs(f, name) == f

\* queue_job, up to its return or to its call of convert_xlsx: save the upload,
\* then publish (pika.BlockingConnection raises when the broker is unreachable)
QueueJob(id, name, opt) ==
  LET raised == config /\ broker = "down"
      published == config /\ broker = "up"
      saved == SaveUpload(fs, name, id)
      call == [Idle EXCEPT !.op = "queue_job", !.name = name, !.opt = opt,
                           !.id = id, !.via = "queue_job"]
  IN  /\ loop = Idle
      /\ id \in Ids \ used
      /\ used' = used \cup {id}
      /\ lastUp' = [lastUp EXCEPT ![name] = id]
      /\ queue' = IF published
                  THEN Append(queue, [id |-> id, body |-> MessageBody(name, opt)])
                  ELSE queue
      /\ IF raised
         THEN /\ fs' = FailedJobFs(saved, name)
              /\ loop' = [call EXCEPT !.pc = "done", !.res = "queue_error"]
              /\ UNCHANGED handledS
         ELSE IF FallsBack(config)
         THEN /\ fs' = saved
              /\ loop' = [call EXCEPT !.op = "convert", !.pc = "write"]
              /\ handledS' = Bump(handledS, id)
         ELSE /\ fs' = saved
              /\ loop' = [call EXCEPT !.pc = "done", !.res = "queued"]
              /\ UNCHANGED handledS
      /\ UNCHANGED <<out, config, broker, unacked, inbox, delivered, handledW, slept>>
      /\ UNCHANGED <<workerVars, clockVars, authVars>>

----------------------------------------------------------------------------
(* Gateway: convert_xlsx *)

\* POST /convert arrives
ConvertBegin(name, opt) ==
  /\ loop = Idle
  /\ loop' = [Idle EXCEPT !.op = "convert", !.pc = "write", !.name = name,
                          !.opt = opt, !.via = "client"]
  /\ UNCHANGED <<fs, out, config, broker>>
  /\ UNCHANGED <<queueVars, workerVars, histVars, clockVars, authVars>>

\* what `await file.read()` returns: the whole upload, or nothing when queue_job
\* has already copied file.file to its end
UploadBody(via) == IF via = "queue_job" THEN Xlsx(0) ELSE Xlsx(ClientSrc)

\* the try block of convert_xlsx: write the input, run the engine
ConvertRun ==
  LET name == loop.name
      body == UploadBody(loop.via)
      written == WriteFile(fs, name, body)
  IN  /\ loop.op = "convert" /\ loop.pc = "write"
      /\ \/ \* open or write raises: the input is missing or cut short
            /\ fs' \in {fs, WriteFile(fs, name, Xlsx(0))}
            /\ loop' = [loop EXCEPT !.pc = "chk1", !.res = "conv_error"]
         \/ \* the engine exits with zero and has written its output
            /\ fs' = WriteFile(written, EngineOut(name), Pdf(body, ConvertFilter(loop.opt)))
            /\ loop' = [loop EXCEPT !.pc = "chk1", !.res = "file",
                                    !.wrote = EngineOut(name), !.read = body.src]
         \/ \* the engine exits with non-zero, or subprocess.run raises
            /\ fs' = written
            /\ loop' = [loop EXCEPT !.pc = "chk1", !.res = "conv_error"]
      /\ UNCHANGED <<out, config, broker>>
      /\ UNCHANGED <<queueVars, workerVars, histVars, clockVars, authVars>>

\* the i-th path of `for p in [input_path, output_path]`
CleanupPath(i, name) == IF i = 1 THEN name ELSE OutputPath(name)

CleanupIndex(pc) == IF pc \in {"chk1", "rm1"} THEN 1 ELSE 2

AfterCleanup(i) == IF i = 1 THEN "chk2" ELSE "done"

\* finally: `if os.path.exists(p):`
ConvertCleanupCheck ==
  LET i == CleanupIndex(loop.pc)
  IN  /\ loop.op = "convert" /\ loop.pc \in {"chk1", "chk2"}
      /\ loop' = [loop EXCEPT !.pc = IF Exists(fs, CleanupPath(i, loop.name))
                                     THEN (IF i = 1 THEN "rm1" ELSE "rm2")
                                     ELSE AfterCleanup(i)]
      /\ UNCHANGED <<fs, out, config, broker>>
      /\ UNCHANGED <<queueVars, workerVars, histVars, clockVars, authVars>>

\* an exception that leaves convert_xlsx: a 500 for POST /convert, and
\* {"error": str(e)} from the `except Exception` of queue_job
EscapedError(via) == IF via = "queue_job" THEN "conv_error" ELSE "raised"

\* finally: `os.remove(p)`; FileNotFoundError leaves the handler
ConvertCleanupRemove ==
  LET i == CleanupIndex(loop.pc)
      p == CleanupPath(i, loop.name)
  IN  /\ loop.op = "convert" /\ loop.pc \in {"rm1", "rm2"}
      /\ IF Exists(fs, p)
         THEN /\ fs' = RemoveFile(fs, p)
              /\ loop' = [loop EXCEPT !.pc = AfterCleanup(i)]
         ELSE /\ fs' = fs
              /\ loop' = [loop EXCEPT !.pc = "done", !.res = EscapedError(loop.via)]
      /\ UNCHANGED <<out, config, broker>>
      /\ UNCHANGED <<queueVars, workerVars, histVars, clockVars, authVars>>

----------------------------------------------------------------------------
(* Gateway: convert_in_shared_dir *)

\* the handler up to its existence check; via is "client" or "worker"
StagedStart(name, opt, del, via, id) ==
  LET call == [Idle EXCEPT !.op = "staged", !.name = name, !.opt = opt,
                           !.del = del, !.via = via, !.id = id]
  IN  /\ loop = Idle
      /\ loop' = IF Exists(fs, name)
                 THEN [call EXCEPT !.pc = "run"]
                 ELSE [call EXCEPT !.pc = "done", !.res = "404"]
      /\ UNCHANGED <<fs, out, config, broker>>
      /\ UNCHANGED <<queueVars, histVars, clockVars, authVars>>

\* POST /convert-in-shared-dir from a client
StagedBegin(name, opt, del) ==
  /\ StagedStart(name, opt, del, "client", 0)
  /\ UNCHANGED workerVars

\* a staged conversion that does not keep its input
StagedInputMoved(f, name, opt) ==
  RemoveFile(WriteFile(f, EngineOut(name), Pdf(f[name], ConvertFilter(opt))), name)

\* the Staging Store after a successful run of the engine on a staged input,
\* before the optional delete: the output is added, the input stays
StagedOutputKept(f, name, opt) ==
  WriteFile(f, EngineOut(name), Pdf(f[name], ConvertFilter(opt)))

\* subprocess.run of the engine on the staged input
StagedRun ==
  LET name == loop.name
  IN  /\ loop.op = "staged" /\ loop.pc = "run"
      /\ \/ \* exit code zero: the engine read the input and wrote the output
            /\ Exists(fs, name)
            /\ fs' = StagedOutputKept(fs, name, loop.opt)
            /\ loop' = [loop EXCEPT !.pc = IF loop.del THEN "del" ELSE "done",
                                    !.res = "success",
                                    !.wrote = EngineOut(name),
                                    !.read = fs[name].src]
         \/ \* non-zero exit code, or subprocess.run raises
            /\ fs' = fs
            /\ loop' = [loop EXCEPT !.pc = "done", !.res = "conv_error"]
      /\ UNCHANGED <<out, config, broker>>
      /\ UNCHANGED <<queueVars, workerVars, histVars, clockVars, authVars>>

\* a delete_original that takes the output along with the input
StagedDeletedBoth(f, name) == RemoveFile(RemoveFile(f, name), EngineOut(name))

\* the Staging Store after os.remove(input_path): the input alone is removed
StagedDeleted(f, name) == RemoveFile(f, name)

\* `if delete_original: os.remove(input_path)`; FileNotFoundError is caught by
\* the handler's `except Exception`
StagedDelete ==
  /\ loop.op = "staged" /\ loop.pc = "del"
  /\ IF Exists(fs, loop.name)
     THEN /\ fs' = StagedDeleted(fs, loop.name)
          /\ loop' = [loop EXCEPT !.pc = "done"]
     ELSE /\ fs' = fs
          /\ loop' = [loop EXCEPT !.pc = "done", !.res = "conv_error"]
  /\ UNCHANGED <<out, config, broker>>
  /\ UNCHANGED <<queueVars, workerVars, histVars, clockVars, authVars>>

----------------------------------------------------------------------------
(* Gateway: delete_file *)

\* POST /delete-file up to `if os.path.exists(file_path):`
DeleteBegin(name) ==
  LET call == [Idle EXCEPT !.op = "delete_file", !.name = name, !.via = "client"]
  IN  /\ loop = Idle
      /\ loop' = IF Exists(fs, name)
                 THEN [call EXCEPT !.pc = "rm"]
                 ELSE [call EXCEPT !.pc = "done", !.res = "noop"]
      /\ UNCHANGED <<fs, out, config, broker>>
      /\ UNCHANGED <<queueVars, workerVars, histVars, clockVars, authVars>>

\* `os.remove(file_path)`: raises FileNotFoundError when the file has gone
DeleteRemove ==
  /\ loop.op = "delete_file" /\ loop.pc = "rm"
  /\ IF Exists(fs, loop.name)
     THEN /\ fs' = RemoveFile(fs, loop.name)
          /\ loop' = [loop EXCEPT !.pc = "done", !.res = "deleted"]
     ELSE /\ fs' = fs
          /\ loop' = [loop EXCEPT !.pc = "done", !.res = "raised"]
  /\ UNCHANGED <<out, config, broker>>
  /\ UNCHANGED <<queueVars, workerVars, histVars, clockVars, authVars>>

----------------------------------------------------------------------------
(* Gateway: check_pdf, and the transmission of file responses *)

\* check_pdf with delete set, by mistake removing the file in the handler
CheckPdfRemovesNow(f, path, delete) == IF delete THEN RemoveFile(f, path) ELSE f

\* the Staging Store when check_pdf returns: the handler itself removes nothing
CheckPdfFs(f, path, delete) == f

\* GET /check-pdf/{filename}?delete=...: 404 when the file is absent, else a
\* FileResponse, with os.remove as its background task when delete is set
CheckPdf(name, delete) ==
  /\ Cardinality(out) < MaxResp
  /\ IF Exists(fs, name)
     THEN /\ out' = out \cup {Response("check_pdf", name, delete, "pending")}
          /\ fs' = CheckPdfFs(fs, name, delete)
     ELSE /\ out' = out
          /\ fs' = fs
  /\ UNCHANGED <<loop, config, broker>>
  /\ UNCHANGED <<queueVars, workerVars, histVars, clockVars, authVars>>

\* the response is sent, by the event loop once no handler occupies it:
\* FileResponse reads the file now, and fails (dropping its background task)
\* when the file no longer exists; a response that was sent stays only while
\* its background task is still to run
Transmit(r) ==
  /\ r \in out /\ r.stage = "pending"
  /\ loop = Idle
  /\ out' = IF Exists(fs, r.path) /\ r.bg
            THEN (out \ {r}) \cup {[r EXCEPT !.stage = "sent"]}
            ELSE out \ {r}
  /\ UNCHANGED <<fs, loop, config, broker>>
  /\ UNCHANGED <<queueVars, workerVars, histVars, clockVars, authVars>>

\* the background task of a sent response, on a thread of the pool:
\* os.remove(pdf_path), which raises in the background when the file has gone
BackgroundRemove(r) ==
  /\ r \in out /\ r.stage = "sent"
  /\ fs' = IF Exists(fs, r.path) THEN RemoveFile(fs, r.path) ELSE fs
  /\ out' = out \ {r}
  /\ UNCHANGED <<loop, config, broker>>
  /\ UNCHANGED <<queueVars, workerVars, histVars, clockVars, authVars>>

\* the handler in progress returns: a FileResponse awaits transmission, and
\* the reply of a staged conversion reaches the Worker that is waiting for it
Finish ==
  LET file == loop.op = "convert" /\ loop.res = "file"
      reply == loop.via = "worker" /\ wpc = "wait"
  IN  /\ loop.pc = "done"
      /\ file => Cardinality(out) < MaxResp
      /\ out' = IF file
                THEN out \cup {Response("convert", OutputPath(loop.name), FALSE, "pending")}
                ELSE out
      /\ loop' = Idle
      /\ wpc' = IF reply THEN "consuming" ELSE wpc
      /\ wmsg' = IF reply THEN NoMsg ELSE wmsg
      /\ UNCHANGED <<fs, config, broker, conn, sleepLeft>>
      /\ UNCHANGED <<queueVars, histVars, clockVars, authVars>>

----------------------------------------------------------------------------
(* Gateway: verify_credentials *)

\* a credentials check made only after queue_job has saved the upload
RejectedAfterSave(f, op, name) ==
  IF op = "queue_job" THEN WriteFile(f, name, Xlsx(0)) ELSE f

\* the Staging Store when verify_credentials has raised 401: the dependency is
\* resolved before the handler is called, so no line of the handler has run
RejectedFs(f, op, name) == f

\* a request for a protected operation with credentials that verify_credentials
\* refuses: HTTPException(401) with the WWW-Authenticate header
Unauthorized(op, u, p, name) ==
  /\ op \in ProtectedOps
  /\ ~VerifyCredentials(u, p)
  /\ denied' = op
  /\ fs' = RejectedFs(fs, op, name)
  /\ UNCHANGED <<loop, out, config, broker, workerUser>>
  /\ UNCHANGED <<queueVars, workerVars, histVars, clockVars>>

----------------------------------------------------------------------------
(* Task Queue *)

\* basic_consume(..., auto_ack=True): a message is acknowledged on delivery
AutoAckOff == FALSE

AutoAck == TRUE

\* the broker becomes unreachable; connections to it die; the durable queue
\* and its persistent messages survive
BrokerFails ==
  /\ broker = "up"
  /\ broker' = "down"
  /\ conn' = FALSE
  /\ UNCHANGED <<wpc, wmsg, sleepLeft>>
  /\ UNCHANGED <<gatewayVars, config, queueVars, histVars, authVars>>

BrokerReturns ==
  /\ broker = "down"
  /\ broker' = "up"
  /\ UNCHANGED <<gatewayVars, config, queueVars, workerVars, histVars, authVars>>

BrokerDown == BrokerFails /\ UNCHANGED clockVars

BrokerUp == BrokerReturns /\ UNCHANGED clockVars

\* the broker pushes the head of the queue to the consumer; an unacknowledged
\* message would be kept for redelivery
Deliver ==
  /\ broker = "up" /\ conn /\ wpc \in {"consuming", "check", "post", "wait"}
  /\ queue # <<>>
  /\ queue' = Tail(queue)
  /\ inbox' = Append(inbox, Head(queue))
  /\ unacked' = IF AutoAck THEN unacked ELSE Append(unacked, Head(queue))
  /\ delivered' = Bump(delivered, Head(queue).id)
  /\ UNCHANGED <<gatewayVars, config, broker, workerVars, clockVars, authVars>>
  /\ UNCHANGED <<used, handledW, handledS, lastUp, slept>>

\* what the queue holds once a consumer's connection is gone: unacknowledged
\* messages are requeued
Requeued == unacked \o queue

\* some other producer publishes a message to 'pdf_jobs' (at most MaxJobs
\* messages are in the queue or waiting at the Worker)
ForeignPublish(body) ==
  /\ broker = "up"
  /\ Len(queue) + Len(inbox) < MaxJobs
  /\ queue' = Append(queue, [id |-> 0, body |-> body])
  /\ UNCHANGED <<gatewayVars, config, broker, unacked, inbox>>
  /\ UNCHANGED <<workerVars, histVars, clockVars, authVars>>

----------------------------------------------------------------------------
(* Worker: main *)

\* pika.BlockingConnection(...) succeeds
WorkerConnect ==
  /\ wpc = "connect" /\ broker = "up"
  /\ wpc' = "connected"
  /\ conn' = TRUE
  /\ UNCHANGED <<wmsg, sleepLeft>>
  /\ UNCHANGED <<gatewayVars, config, broker, queueVars, jobVars, clockVars, authVars>>
  /\ slept' = FALSE

\* the wait of the reconnect loop after a failure: always the same
RetryDelayDoubled == 2 * RetryInterval

RetryDelay == RetryInterval

\* a reconnect loop that tries again at once
AfterErrorRetriesAtOnce == "connect"

\* where main is after an exception: in time.sleep, before the next attempt
AfterError == "sleep"

\* `except Exception`: print, then time.sleep(5)
Disconnect ==
  /\ wpc' = AfterError
  /\ sleepLeft' = RetryDelay
  /\ wmsg' = NoMsg
  /\ conn' = FALSE
  /\ inbox' = <<>>
  /\ queue' = Requeued
  /\ unacked' = <<>>

\* pika.BlockingConnection(...) raises: the broker is unreachable
WorkerConnectFail ==
  /\ wpc = "connect" /\ broker = "down"
  /\ Disconnect
  /\ UNCHANGED <<gatewayVars, config, broker, jobVars, clockVars, authVars>>
  /\ slept' = FALSE

\* queue_declare, basic_consume, start_consuming on the new connection
WorkerConsume ==
  /\ wpc = "connected" /\ conn
  /\ wpc' = "consuming"
  /\ UNCHANGED <<conn, wmsg, sleepLeft>>
  /\ UNCHANGED <<gatewayVars, config, broker, queueVars, histVars, clockVars, authVars>>

\* the connection is found dead (in queue_declare, basic_consume or
\* start_consuming, between two callbacks): the exception reaches main's except
WorkerConnLost ==
  /\ wpc \in {"connected", "consuming"} /\ ~conn
  /\ Disconnect
  /\ UNCHANGED <<gatewayVars, config, broker, histVars, clockVars, authVars>>

\* time.sleep(5) returns after the whole wait went by
SleepElapse ==
  /\ wpc = "sleep" /\ sleepLeft > 0
  /\ sleepLeft' = 0
  /\ UNCHANGED <<conn, wpc, wmsg>>
  /\ UNCHANGED <<gatewayVars, config, broker, queueVars, jobVars, clockVars, authVars>>
  /\ slept' = TRUE

\* back to the top of `while True`
WorkerWake ==
  /\ wpc = "sleep" /\ sleepLeft = 0
  /\ wpc' = "connect"
  /\ UNCHANGED <<conn, wmsg, sleepLeft>>
  /\ UNCHANGED <<gatewayVars, config, broker, queueVars, histVars, clockVars, authVars>>

\* the Worker process dies and is started again: main runs from its top, the
\* old connection and everything it had received are gone
WorkerRestart ==
  /\ wpc # "connect"
  /\ wpc' = "connect"
  /\ wmsg' = NoMsg
  /\ conn' = FALSE
  /\ sleepLeft' = 0
  /\ inbox' = <<>>
  /\ queue' = Requeued
  /\ unacked' = <<>>
  /\ UNCHANGED <<gatewayVars, config, broker, jobVars, clockVars, authVars>>
  /\ slept' = FALSE

----------------------------------------------------------------------------
(* Worker: process_message *)

\* a consumer that hands a message to a new callback while one is running
CallbackFreeAlways(pc) == pc \in {"consuming", "check", "post", "wait"}

\* start_consuming runs on one thread: it can invoke the callback only when
\* it is not inside one
CallbackFree(pc) == pc = "consuming"

\* start_consuming invokes the callback for the next received message
WorkerDispatch ==
  /\ CallbackFree(wpc) /\ inbox # <<>>
  /\ wpc' = "check"
  /\ wmsg' = Head(inbox)
  /\ inbox' = Tail(inbox)
  /\ handledW' = Bump(handledW, Head(inbox).id)
  /\ UNCHANGED <<conn, sleepLeft, queue, unacked>>
  /\ UNCHANGED <<gatewayVars, config, broker, clockVars, authVars>>
  /\ UNCHANGED <<used, delivered, handledS, lastUp, slept>>

\* a Worker that calls the Gateway without looking for the file
ChecksNothing(f, name) == TRUE

\* `if not os.path.exists(xlsx_path): ... return`: the job goes on only when
\* the file is in the shared directory now
FileFound(f, name) == Exists(f, name)

\* json.loads (an exception is caught by `except Exception`),
\* `if not xlsx_filename: return`, `if not os.path.exists: return`
WorkerCheck ==
  LET name == Get(wmsg.body, "xlsx")
  IN  /\ wpc = "check"
      /\ IF Decodes(wmsg.body) /\ name \in Names /\ FileFound(fs, name)
         THEN /\ wpc' = "post"
              /\ wmsg' = wmsg
         ELSE /\ wpc' = "consuming"
              /\ wmsg' = NoMsg
      /\ UNCHANGED <<conn, sleepLeft>>
      /\ UNCHANGED <<gatewayVars, config, broker, queueVars, histVars, clockVars, authVars>>

\* payload['lo_options'] = json.dumps(lo_options), only `if lo_options:`
PayloadOptions(body) ==
  IF Truthy(Get(body, "lo_options")) THEN JsonDumps(Get(body, "lo_options")) ELSE NoOpt

\* payload['delete_original'] = delete_original, only `if delete_original:`
PayloadDelete(body) == Truthy(Get(body, "delete_original"))

\* requests.post(PRINTER_API_URL, data=payload, auth=...) reaches the Gateway
WorkerPost ==
  /\ wpc = "post"
  /\ VerifyCredentials(workerUser, PrinterPass)
  /\ StagedStart(Get(wmsg.body, "xlsx"), PayloadOptions(wmsg.body),
                 PayloadDelete(wmsg.body), "worker", wmsg.id)
  /\ wpc' = "wait"
  /\ UNCHANGED <<conn, wmsg, sleepLeft>>

\* requests.post is answered with 401: the `else` of `if response.status_code
\* == 200` prints the failure and process_message returns
WorkerPostDenied ==
  /\ wpc = "post"
  /\ ~VerifyCredentials(workerUser, PrinterPass)
  /\ denied' = "staged"
  /\ wpc' = "consuming"
  /\ wmsg' = NoMsg
  /\ UNCHANGED <<conn, sleepLeft, workerUser>>
  /\ UNCHANGED <<gatewayVars, config, broker, queueVars, histVars, clockVars>>

\* a transport error that leaves process_message and reaches main
TransportErrorEscapes == "sleep"

\* where the Worker is after requests.post raised: `except Exception` of
\* process_message catches it, the callback returns to start_consuming
AfterTransportError == "consuming"

\* requests.post raises (the Gateway cannot be reached): caught, logged
WorkerTransportError ==
  /\ wpc = "post"
  /\ wpc' = AfterTransportError
  /\ wmsg' = NoMsg
  /\ UNCHANGED <<conn, sleepLeft>>
  /\ UNCHANGED <<gatewayVars, config, broker, queueVars, histVars, clockVars, authVars>>

----------------------------------------------------------------------------
(* Specifications.  Each one lets a part of the system's environment act:  *)
(* Spec the Gateway's clients (the Worker stays idle), SpecQueue the       *)
(* queued path (clients only submit jobs), SpecTimed the queued path with  *)
(* a clock (defined with the clock's actions below).                       *)

\* the steps of a handler in progress; StagedDelete is apart: it needs a request
\* with delete_original, which no message published by queue_job leads to
GatewaySteps ==
  \/ ConvertRun
  \/ ConvertCleanupCheck
  \/ ConvertCleanupRemove
  \/ StagedRun
  \/ Finish

Next ==
  \/ \E name \in Names :
        Cardinality(used) < MaxUploads /\ QueueJob(Cardinality(used) + 1, name, NoOpt)
  \/ \E name \in Names : ConvertBegin(name, NoOpt)
  \/ \E name \in Names, del \in BOOLEAN : StagedBegin(name, NoOpt, del)
  \/ \E name \in Paths : DeleteBegin(name)
  \/ DeleteRemove
  \/ \E name \in Paths, delete \in BOOLEAN : CheckPdf(name, delete)
  \/ \E r \in out : Transmit(r)
  \/ \E r \in out : BackgroundRemove(r)
  \/ GatewaySteps
  \/ StagedDelete
  \/ BrokerDown
  \/ BrokerUp

Spec == Init /\ [][Next]_vars

WorkerSteps ==
  \/ Deliver
  \/ WorkerConnect
  \/ WorkerConnectFail
  \/ WorkerConsume
  \/ WorkerConnLost
  \/ WorkerWake
  \/ WorkerDispatch
  \/ WorkerCheck
  \/ WorkerPost
  \/ WorkerPostDenied
  \/ WorkerTransportError

NextQueue ==
  \/ \E id \in Ids, name \in Names, opt \in Options : QueueJob(id, name, opt)
  \/ GatewaySteps
  \/ WorkerSteps
  \/ SleepElapse
  \/ WorkerRestart
  \/ BrokerDown
  \/ BrokerUp

SpecQueue == Init /\ [][NextQueue]_vars

----------------------------------------------------------------------------
(* The queued path with a clock, in seconds.  Time passes while the Worker  *)
(* sleeps, waits for messages or is blocked in a callback (requests.post    *)
(* has no timeout); a connection attempt and the steps between two blocking *)
(* calls take no time.                                                      *)

ClockCap == RetryInterval + ClockSlack

Later(t) == IF t < ClockCap THEN t + 1 ELSE t

\* the Worker is in its reconnect loop: it has noticed that the connection is gone
Disconnected == wpc \in {"sleep", "connect"}

\* start_consuming is running on a live connection
Consuming == wpc \in {"consuming", "check", "post", "wait"} /\ conn

TimedBrokerDown ==
  /\ BrokerFails
  /\ upFor' = 0
  /\ downFor' = 0
  /\ lateDetect' = FALSE

TimedBrokerUp ==
  /\ BrokerReturns
  /\ upFor' = 0
  /\ downFor' = downFor
  /\ lateDetect' = ~Disconnected

\* one second passes
Tick ==
  /\ wpc \notin {"connect", "connected"}
  /\ ~(wpc = "sleep" /\ sleepLeft = 0)
  /\ sleepLeft' = IF wpc = "sleep" THEN sleepLeft - 1 ELSE sleepLeft
  /\ upFor' = IF broker = "up" THEN Later(upFor) ELSE upFor
  /\ downFor' = IF broker = "down" THEN Later(downFor) ELSE downFor
  /\ UNCHANGED <<conn, wpc, wmsg, lateDetect>>
  /\ UNCHANGED <<gatewayVars, config, broker, queueVars, jobVars, authVars>>
  /\ slept' = IF wpc = "sleep" /\ sleepLeft = 1 THEN TRUE ELSE slept

NextTimed ==
  \/ \E name \in Names :
        Cardinality(used) < MaxUploads /\ QueueJob(Cardinality(used) + 1, name, NoOpt)
  \/ GatewaySteps
  \/ WorkerSteps
  \/ Tick
  \/ TimedBrokerDown
  \/ TimedBrokerUp

SpecTimed == Init /\ [][NextTimed]_vars

----------------------------------------------------------------------------
(* The queued path, with requests that fail authentication.                 *)

NextAuth ==
  \/ \E name \in Names :
        Cardinality(used) < MaxUploads /\ QueueJob(Cardinality(used) + 1, name, NoOpt)
  \/ GatewaySteps
  \/ WorkerSteps
  \/ SleepElapse
  \/ BrokerDown
  \/ BrokerUp
  \/ \E op \in ProtectedOps, u \in Users, p \in Passwords, name \in Names :
        Unauthorized(op, u, p, name)

SpecAuth == Init /\ [][NextAuth]_vars

----------------------------------------------------------------------------
(* POST /convert for uploads of every name in NameInputs, each into an     *)
(* empty Staging Store.                                                     *)

EmptyStore == \A p \in AllPaths : ~Exists(fs, p)

NextNaming ==
  \/ \E name \in NameInputs, opt \in Options : EmptyStore /\ ConvertBegin(name, opt)
  \/ ConvertRun
  \/ ConvertCleanupCheck
  \/ ConvertCleanupRemove
  \/ Finish
  \/ \E r \in out : Transmit(r)

SpecNaming == Init /\ [][NextNaming]_vars

----------------------------------------------------------------------------
(* The queued path with messages of other producers in the queue.           *)

NextMessages ==
  \/ \E name \in Names :
        Cardinality(used) < MaxUploads /\ QueueJob(Cardinality(used) + 1, name, NoOpt)
  \/ \E body \in ForeignBodies : ForeignPublish(body)
  \/ GatewaySteps
  \/ WorkerSteps
  \/ SleepElapse
  \/ BrokerDown
  \/ BrokerUp

SpecMessages == Init /\ [][NextMessages]_vars

----------------------------------------------------------------------------
(* The queued path with clients that delete staged files.                   *)

NextDiscard ==
  \/ \E id \in Ids, name \in Names : QueueJob(id, name, NoOpt)
  \/ \E name \in Names : DeleteBegin(name)
  \/ DeleteRemove
  \/ GatewaySteps
  \/ WorkerSteps
  \/ SleepElapse
  \/ BrokerDown
  \/ BrokerUp

SpecDiscard == Init /\ [][NextDiscard]_vars

----------------------------------------------------------------------------
(* Properties *)

\* POST /convert: convert_xlsx has returned (its finally block is over)
ConvertReturned == loop.op = "convert" /\ loop.via = "client" /\ loop.pc = "done"

\* the upload has a name the spec calls valid: replacing ".xlsx" in it gives
\* the name of the file the engine writes
ValidUpload(name) == OutputPath(name) = EngineOut(name)

\* C1: once convert_xlsx has returned, whatever the engine's outcome, neither
\* the input path nor the output file produced by the request is in the
\* Staging Store.  Stated for the uploads the spec calls valid.
C1_NoResidue ==
  (ConvertReturned /\ ValidUpload(loop.name)) =>
     /\ ~Exists(fs, loop.name)
     /\ loop.wrote # NoName => ~Exists(fs, loop.wrote)

\* C2: when the Task Queue is unreachable (no configuration, or the broker
\* is down), queue_job returns what convert_xlsx returns (a file or a
\* conversion error), never the queue's connection error.
C2_FallbackWhenUnreachable ==
  (loop.via = "queue_job" /\ loop.pc = "done") =>
     /\ loop.res # "queue_error"
     /\ ~config => loop.res \in {"file", "conv_error"}

\* the message of request i is held by the queue or by the Worker's connection
InFlight(i) ==
  \/ \E k \in 1..Len(queue) : queue[k].id = i
  \/ \E k \in 1..Len(inbox) : inbox[k].id = i

\* C3: a message the Worker has received is never delivered again, also when
\* the Worker crashes or loses its connection while processing it; so
\* process_message runs at most once for a job.
C3_NoRedelivery == \A i \in Ids : delivered[i] <= 1 /\ handledW[i] <= 1

\* C3 witness: the Worker died while the Gateway was converting for message
\* loop.id, is consuming again on a new connection, and the queue is empty:
\* the message has not come back.
C3_Witness ==
  /\ loop.op = "staged" /\ loop.via = "worker" /\ loop.pc = "run"
  /\ wpc = "consuming" /\ conn /\ broker = "up"
  /\ queue = <<>> /\ inbox = <<>>
  /\ delivered[loop.id] = 1

Handled(i) == handledS[i] + handledW[i]

\* queue_job has passed request i on, to convert_xlsx or to the Task Queue
PassedOn(i) == handledS[i] > 0 \/ delivered[i] > 0 \/ InFlight(i)

\* C4 (as stated): every job of queue_job is handled exactly once, by
\* convert_xlsx or by the Worker: never twice, and, once its message is no
\* longer in flight, never by neither.  Stated for the jobs that queue_job
\* has passed on.
C4_ExactlyOnce ==
  \A i \in used :
     /\ Handled(i) <= 1
     /\ (PassedOn(i) /\ ~InFlight(i)) => Handled(i) = 1

\* C4 (amended): every job of queue_job is handled at most once: never by
\* both convert_xlsx and the Worker, and never more than once by either.
C4_AtMostOnce == \A i \in Ids : Handled(i) <= 1

\* C4 witness: a job that the Worker has handled, once, and finished.
C4_Witness ==
  \E i \in used :
     /\ handledW[i] = 1 /\ handledS[i] = 0
     /\ ~InFlight(i) /\ wmsg = NoMsg /\ wpc = "consuming" /\ loop = Idle
     /\ \E p \in Paths : fs[p].kind = "pdf" /\ fs[p].src = i

\* C5 (as stated): when the Task Queue was unavailable for longer than one
\* retry interval and has then been available for longer than one retry
\* interval, the Worker is consuming.
C5_ConsumingWithinInterval ==
  (broker = "up" /\ downFor > RetryInterval /\ upFor > RetryInterval) => Consuming

\* C5 (amended): the same, for a Worker that had noticed the outage (was in
\* its reconnect loop, not blocked in a callback or waiting on the dead
\* connection) when the Task Queue became available.
C5_ConsumingOnceDisconnected ==
  (broker = "up" /\ downFor > RetryInterval /\ upFor > RetryInterval /\ ~lateDetect)
     => Consuming

\* C5 witness: after an outage longer than the retry interval, which the
\* Worker had noticed, the Worker consumes again, some seconds but no more
\* than one retry interval after the Task Queue came back.
C5_Witness ==
  /\ broker = "up" /\ downFor > RetryInterval /\ ~lateDetect
  /\ upFor > 0 /\ upFor <= RetryInterval
  /\ Consuming

\* C6: when convert_xlsx returns its FileResponse (engine exit code zero), the
\* output file is in the Staging Store at the moment the response is sent.
\* Stated for the responses that name the file the engine wrote.
C6_OutputPresentWhenSent ==
  [][\A r \in out :
        (/\ r.op = "convert" /\ r.stage = "pending" /\ r \notin out'
         /\ r.path \in { EngineOut(n) : n \in Names }) => Exists(fs, r.path)]_vars

\* C7: check_pdf itself removes nothing and answers with a file only when the
\* file is present (404, nothing scheduled, otherwise); a file is removed
\* outside the event loop's handlers only by the background task of a
\* check_pdf response that asked for deletion and has been sent.
C7_DeletionAfterTransmission ==
  [][/\ \A r \in out' \ out :
           (r.op = "check_pdf" /\ r.stage = "pending") => (Exists(fs, r.path) /\ fs' = fs)
     /\ \A p \in Paths :
           (Exists(fs, p) /\ ~Exists(fs', p) /\ loop' = loop) =>
              \E r \in out \ out' :
                 r.op = "check_pdf" /\ r.path = p /\ r.bg /\ r.stage = "sent"]_vars

\* C7 witness: a check_pdf response with delete set has been sent, and the
\* file it served is still there, its deletion yet to run.
C7_Witness ==
  \E r \in out :
     r.op = "check_pdf" /\ r.bg /\ r.stage = "sent" /\ Exists(fs, r.path)

\* C8: delete_file never raises: it ends having deleted the file or, the file
\* being absent, having done nothing, also when it is interleaved with a
\* deferred cleanup of the same file.
C8_DeleteNeverRaises ==
  (loop.op = "delete_file" /\ loop.pc = "done") => loop.res \in {"deleted", "noop"}

\* C9: the staged path depends on the filename alone, and the last writer
\* wins: an upload of a queue_job request found under a name is the upload
\* of the last request that wrote to that name.
C9_LastWriterWins ==
  \A n \in Names :
     (fs[n].kind = "xlsx" /\ fs[n].src \in Ids) => fs[n].src = lastUp[n]

\* C9 witness: both requests were made, the request tagged 1 wrote last, and
\* the conversion the Worker triggered for the message of request 2 has read
\* the upload of request 1.
C9_Witness ==
  /\ loop.op = "staged" /\ loop.via = "worker" /\ loop.pc = "done"
  /\ loop.id = 2 /\ loop.read = 1
  /\ fs[loop.name] = Xlsx(1)

\* the step removes path p as ...
\* ... the os.remove of delete_file
ByDeleteFile(p) ==
  loop.op = "delete_file" /\ loop.pc = "rm" /\ loop.name = p /\ loop' # loop

\* ... the background task of a sent check_pdf response
ByDeferredCleanup(p) ==
  loop' = loop /\ \E r \in out \ out' : r.path = p /\ r.bg /\ r.stage = "sent"

\* ... the finally block of convert_xlsx
ByConvertCleanup(p) ==
  /\ loop.op = "convert" /\ loop.pc \in {"rm1", "rm2"} /\ loop' # loop
  /\ p \in {loop.name, OutputPath(loop.name)}

\* ... the `if delete_original:` of convert_in_shared_dir
ByStagedDelete(p) ==
  loop.op = "staged" /\ loop.pc = "del" /\ loop.del /\ loop.name = p /\ loop' # loop

Removed(p) == Exists(fs, p) /\ ~Exists(fs', p)

\* C10 (as stated): a staged file leaves the Staging Store only through
\* delete_file, the deferred cleanup of check_pdf, or the cleanup at the end
\* of convert_xlsx.
C10_ThreeWaysToDelete ==
  [][\A p \in Paths :
        Removed(p) => (ByDeleteFile(p) \/ ByDeferredCleanup(p) \/ ByConvertCleanup(p))]_vars

\* C10 (amended): a staged file leaves the Staging Store only through
\* delete_file, the deferred cleanup of check_pdf, the cleanup at the end of
\* convert_xlsx, or convert_in_shared_dir deleting its input after a
\* successful conversion when delete_original is set.
C10_FourWaysToDelete ==
  [][\A p \in Paths :
        Removed(p) => (\/ ByDeleteFile(p) \/ ByDeferredCleanup(p)
                       \/ ByConvertCleanup(p) \/ ByStagedDelete(p))]_vars

\* C10 witness: convert_in_shared_dir, called with delete_original, has
\* converted a staged input and removed it; the output it wrote is there.
C10_Witness ==
  /\ loop.op = "staged" /\ loop.del /\ loop.pc = "done" /\ loop.res = "success"
  /\ ~Exists(fs, loop.name) /\ Exists(fs, loop.wrote)

\* a step of convert_in_shared_dir, the handler in progress
StagedStep == loop.op = "staged" /\ loop' # loop

\* C11: convert_in_shared_dir never deletes the output; its successful run of
\* the engine leaves the output and the input in the Staging Store, its
\* delete step (taken only when delete_original is set) removes the input
\* and nothing else, and a failed run or a 404 removes nothing; so a call
\* that returns success with delete_original set has removed its input.
C11_StagedFrame ==
  [][/\ StagedStep =>
          /\ \A p \in Paths : Removed(p) => (loop.pc = "del" /\ loop.del /\ p = loop.name)
          /\ (loop.pc = "run" /\ loop'.res = "success") =>
                (Exists(fs', EngineOut(loop.name)) /\ Exists(fs', loop.name))
          /\ (loop.pc = "del" /\ loop'.res = "success") =>
                (~Exists(fs', loop.name) /\ fs'[EngineOut(loop.name)] = fs[EngineOut(loop.name)])
          /\ loop'.res \in {"404", "conv_error"} => fs' = fs
     /\ (loop = Idle /\ loop'.op = "staged") => fs' = fs]_vars

\* C11 witness: convert_in_shared_dir, called without delete_original, has
\* returned success: the input and the output it wrote are both there.
C11_Witness ==
  /\ loop.op = "staged" /\ ~loop.del /\ loop.pc = "done" /\ loop.res = "success"
  /\ Exists(fs, loop.name) /\ Exists(fs, loop.wrote)

\* C12: a request that fails authentication is answered with 401 before any
\* file I/O: whichever protected operation it was for, the Staging Store, the
\* Task Queue, the handler in progress and the pending responses are
\* unchanged.
C12_RejectedBeforeIO ==
  [][denied' # denied =>
        (fs' = fs /\ queue' = queue /\ loop' = loop /\ out' = out /\ used' = used)]_vars

\* C12 witness: the Worker, running with its default user name, had its
\* staged conversion refused; the upload of the job is untouched and nothing
\* was converted.
C12_Witness ==
  /\ denied = "staged" /\ workerUser = WorkerDefaultUser
  /\ \E n \in Names : fs[n].kind = "xlsx" /\ fs[n].src \in Ids
  /\ \A q \in Paths : fs[q].kind # "pdf"

\* C13: when the engine has converted an upload, the output path derived
\* from the input name is, for a name <stem>.xlsx, exactly <stem>.pdf and the
\* file the engine wrote; for a name without ".xlsx" in it, the derivation
\* changes nothing and the output name is the input name.
C13_OutputNameDerived ==
  (loop.op = "convert" /\ loop.res = "file") =>
     LET name == loop.name
         stem == SubSeq(name, 1, Len(name) - Len(DotXlsx))
     IN  /\ EndsWith(name, DotXlsx) =>
               (OutputPath(name) = stem \o DotPdf /\ OutputPath(name) = loop.wrote)
         /\ ~Contains(name, DotXlsx) => OutputPath(name) = name

\* messages taken out of the queue and not yet fully processed
Unfinished == Len(inbox) + (IF wmsg = NoMsg THEN 0 ELSE 1)

\* C14 (as stated): at most one message is outside the queue and unfinished
\* at any time: the next one is not taken out of the queue before the
\* current one has been fully processed.
C14_OneOutsideQueue == Unfinished <= 1

\* C14 (amended): the Worker processes one message at a time: process_message
\* is invoked for a message only when no other message is being processed
\* (the previous call has returned).
C14_OneAtATime ==
  [][handledW' # handledW => (wpc = "consuming" /\ wmsg = NoMsg)]_vars

\* C14 witness: while the Worker waits for the Gateway's reply for one
\* message, another message has left the queue and waits at the Worker.
C14_Witness ==
  /\ wpc = "wait" /\ wmsg # NoMsg
  /\ inbox # <<>> /\ queue = <<>>

\* process_message is running
InCallback(pc) == pc \in {"check", "post", "wait"}

\* C15: however process_message ends for a message (malformed body, no
\* filename, missing file, transport error, any reply of the Gateway), the
\* Worker is consuming afterwards on the same connection, and the message is
\* gone: it is not put back into the queue.
C15_StaysConsuming ==
  [][(InCallback(wpc) /\ ~InCallback(wpc')) =>
        /\ wpc' = "consuming" /\ wmsg' = NoMsg
        /\ conn' = conn /\ sleepLeft' = sleepLeft
        /\ queue' = queue /\ inbox' = inbox /\ unacked' = unacked]_vars

\* C15 witness: an earlier message ended with a 401 from the Gateway; the
\* Worker, still connected, is now in process_message for the next message,
\* whose body is not JSON.
C15_Witness ==
  /\ denied = "staged" /\ conn
  /\ wpc = "check" /\ wmsg.body = Malformed

\* the messages of queue_job that are in the queue, waiting at the Worker or
\* being processed
JobMessages ==
  { m \in { queue[k] : k \in 1..Len(queue) } \cup { inbox[k] : k \in 1..Len(inbox) }
            \cup {wmsg} : m.id \in Ids }

\* C16: queue_job writes the upload before it publishes: the file named by a
\* message of queue_job has been written, and is staged as long as the
\* message is around; and when queue_job fails between the write and the
\* publish, the upload stays in the Staging Store and no message exists for it.
C16_WriteBeforePublish ==
  /\ \A m \in JobMessages :
        lastUp[m.body.xlsx] # 0 /\ fs[m.body.xlsx].kind = "xlsx"
  /\ (loop.op = "queue_job" /\ loop.res = "queue_error") =>
        (fs[loop.name] = Xlsx(loop.id) /\ ~PassedOn(loop.id))

\* C16 witness: an orphan: the upload of a request whose publish failed is
\* staged, no message was ever published for it, and the Worker is consuming
\* from the empty queue.
C16_Witness ==
  /\ loop = Idle /\ wpc = "consuming" /\ conn /\ queue = <<>> /\ inbox = <<>>
  /\ \E i \in used : ~PassedOn(i) /\ \E n \in Names : fs[n] = Xlsx(i)

\* the Worker attempts to connect
Attempt == wpc = "connect" /\ wpc' # "connect"

\* the Worker enters Consuming
StartsConsuming == wpc' = "consuming" /\ wpc # "consuming" /\ ~InCallback(wpc)

\* C17 (as stated): every connection attempt, the one at startup included,
\* comes after the fixed wait; and the Worker reaches Consuming only from
\* Connected.
C17_WaitBeforeEveryAttempt ==
  [][/\ Attempt => slept
     /\ StartsConsuming => wpc = "connected"]_vars

\* C17 (amended): after any connection error or other exit from consuming
\* the Worker starts the full fixed wait, leaves it only when it is over, and
\* only to attempt to connect; every attempt but the one at startup comes
\* out of that wait; and the Worker reaches Consuming only from Connected,
\* and Connected only from an attempt.
C17_WaitBeforeRetry ==
  [][/\ (wpc' = "sleep" /\ wpc # "sleep") => sleepLeft' = RetryInterval
     /\ (wpc = "sleep" /\ wpc' # "sleep") => (wpc' = "connect" /\ sleepLeft = 0 /\ slept)
     /\ (wpc' = "connect" /\ wpc # "connect") => wpc = "sleep"
     /\ StartsConsuming => wpc = "connected"
     /\ (wpc' = "connected" /\ wpc # "connected") => wpc = "connect"]_vars

\* C17 witness: after a failure and the whole wait, the Worker is about to
\* attempt to connect again.
C17_Witness == wpc = "connect" /\ slept /\ sleepLeft = 0 /\ downFor > 0

\* the file the message in process_message names is not in shared storage
FileMissing == wpc = "check" /\ ~Exists(fs, Get(wmsg.body, "xlsx"))

\* C18: when the file a message names is absent at the Worker's check, the
\* message is discarded and the Gateway is not called for it; and
\* process_message never runs a second time for a job, whatever appears in
\* the Staging Store later.
C18_AbsentFileDiscarded ==
  [][/\ (FileMissing /\ wpc' # wpc) =>
          /\ wpc' = "consuming" /\ wmsg' = NoMsg
          /\ loop' = loop /\ fs' = fs
          /\ queue' = queue /\ inbox' = inbox /\ unacked' = unacked
     /\ \A i \in Ids : handledW'[i] # handledW[i] => handledW[i] = 0]_vars

\* C18 witness: the Worker is in process_message, at its check, for the
\* message of a job whose upload a client has deleted since it was published
\* (nobody has written to that name after the job).
C18_Witness ==
  /\ FileMissing /\ wmsg.id \in Ids /\ conn
  /\ lastUp[wmsg.body.xlsx] = wmsg.id
  /\ loop = Idle

\* the Gateway is running the staged conversion the Worker requested for the
\* message it is processing
ConvertingForWorker ==
  loop.op = "staged" /\ loop.via = "worker" /\ wpc = "wait" /\ wmsg.id = loop.id

\* C19: the options convert_in_shared_dir receives from the Worker are the
\* options the job was submitted with (none when there were none), so the
\* export filter is the one convert_xlsx would use for the same job.
C19_OptionsUnchanged ==
  ConvertingForWorker =>
     /\ loop.opt = Get(wmsg.body, "lo_options")
     /\ ConvertFilter(loop.opt) = ConvertFilter(Get(wmsg.body, "lo_options"))

====
